---- MODULE Spec2Model ----
(***************************************************************************)
(* Model of the MRtrix looping functions of lib/algo/loop.h: the request   *)
(* objects returned by the Loop() overloads, the Run cursors they build    *)
(* when applied to a tuple of images, and the for-loop protocol            *)
(*      for (auto l = Loop (...) (images...); l; ++l) body                 *)
(* Axis identifiers are 0-based as in the source.  An image is a record    *)
(* [size, index, stride], each a function over the image's axes.           *)
(***************************************************************************)
EXTENDS Integers, Sequences, FiniteSets, TLC

VARIABLES image, req, origin, run, pc, nbody, nadv, nextra, seen, other, again

vars == <<image, req, origin, run, pc, nbody, nadv, nextra, seen, other, again>>

\* number of axes of every image
NDim == 3
\* largest extent of an axis of the first image
MaxExtent == 2

Axes == 0 .. (NDim - 1)
ImageIds == {1, 2}

\* std::numeric_limits<size_t>::max(), the default axis_to of Loop (source, ...),
\* held at the width of the model checker's integers
size_t_max == 2147483647

Min(a, b) == IF a < b THEN a ELSE b
Abs(x) == IF x < 0 THEN -x ELSE x

(***************************************************************************)
(* The images (external collaborators): ndim(), size(axis), index(axis),   *)
(* stride(axis).                                                           *)
(***************************************************************************)
ndim(im) == NDim
size(im, axis) == im.size[axis]
index(im, axis) == im.index[axis]
stride(im, axis) == im.stride[axis]

\* apply (set_pos (axis, index), vox): vox.index(axis) = index on every image of vox
set_pos(img, vox, axis, idx) ==
  [i \in DOMAIN img |->
     IF \E k \in DOMAIN vox : vox[k] = i
       THEN [img[i] EXCEPT !.index[axis] = idx]
       ELSE img[i]]

\* inc_pos with a fault: only the first image of the tuple is moved
inc_pos_first_only(img, vox, axis) ==
  [i \in DOMAIN img |->
     IF vox[1] = i
       THEN [img[i] EXCEPT !.index[axis] = @ + 1]
       ELSE img[i]]

\* apply (inc_pos (axis), vox): ++vox.index(axis) on every image of vox
inc_pos(img, vox, axis) ==
  [i \in DOMAIN img |->
     IF \E k \in DOMAIN vox : vox[k] = i
       THEN [img[i] EXCEPT !.index[axis] = @ + 1]
       ELSE img[i]]

\* for (auto axis : axes) apply (set_pos (axis, 0), vox), from list position k on
RECURSIVE set_pos_each(_, _, _, _)
set_pos_each(img, vox, axes, k) ==
  IF k > Len(axes) THEN img
  ELSE set_pos_each(set_pos(img, vox, axes[k], 0), vox, axes, k + 1)

\* the loop below with a fault: n <= to, where the image has an axis to
RECURSIVE set_pos_range_through(_, _, _, _)
set_pos_range_through(img, vox, n, to) ==
  IF n <= to /\ n < NDim
    THEN set_pos_range_through(set_pos(img, vox, n, 0), vox, n + 1, to)
    ELSE img

\* for (size_t n = from; n < to; ++n) apply (set_pos (n, 0), vox)
RECURSIVE set_pos_range(_, _, _, _)
set_pos_range(img, vox, n, to) ==
  IF n < to THEN set_pos_range(set_pos(img, vox, n, 0), vox, n + 1, to)
  ELSE img

(***************************************************************************)
(* Collaborators whose code lies outside the inspected files.              *)
(***************************************************************************)
\* MR::ProgressBar (text, target): a counter and the total it was opened with
NoProgress == [active |-> FALSE, total |-> 0, count |-> 0]
ProgressBar(target) == [active |-> TRUE, total |-> target, count |-> 0]
\* ++progress
ProgressBar_inc(p) == [p EXCEPT !.count = @ + 1]

\* MR::voxel_count (image, from, to): product of the extents of axes [from, to)
RECURSIVE voxel_count_range(_, _, _)
voxel_count_range(im, from, to) ==
  IF from < Min(to, ndim(im))
    THEN size(im, from) * voxel_count_range(im, from + 1, to)
    ELSE 1

\* MR::voxel_count (image, axes): product of the extents of the listed axes
RECURSIVE voxel_count_axes(_, _, _)
voxel_count_axes(im, axes, k) ==
  IF k > Len(axes) THEN 1
  ELSE size(im, axes[k]) * voxel_count_axes(im, axes, k + 1)

\* insertion of axis a into a list kept in ascending |stride|, after its equals
RECURSIVE stride_insert(_, _, _)
stride_insert(im, sorted, a) ==
  IF sorted = <<>> THEN <<a>>
  ELSE IF Abs(stride(im, a)) < Abs(stride(im, Head(sorted)))
    THEN <<a>> \o sorted
    ELSE <<Head(sorted)>> \o stride_insert(im, Tail(sorted), a)

RECURSIVE stride_sort(_, _, _, _)
stride_sort(im, n, to, sorted) ==
  IF n < to THEN stride_sort(im, n + 1, to, stride_insert(im, sorted, n))
  ELSE sorted

\* Stride::order (source, from, to): the axes of [from, min (to, ndim)) by
\* ascending absolute stride, equal strides in ascending axis order
Stride_order(im, from, to) == stride_sort(im, from, Min(to, ndim(im)), <<>>)

(***************************************************************************)
(* The Run cursors.  A cursor is a record                                  *)
(*   [kind, axis, from, to, axes, vox, size0, ok, progress]                *)
(* of which each class uses its own members; vox is the tuple of image     *)
(* identifiers the cursor was bound to, vox[1] the first image.  A         *)
(* constructor or operator++ yields the cursor and the images after it.    *)
(***************************************************************************)
first(r) == r.vox[1]

\* LoopAlongSingleAxis::Run::Run
LoopAlongSingleAxis_Run(axis, vox, img) ==
  [run |-> [kind |-> "single", axis |-> axis, from |-> 0, to |-> 0, axes |-> <<>>,
            vox |-> vox, size0 |-> size(img[vox[1]], axis), ok |-> TRUE,
            progress |-> NoProgress],
   image |-> set_pos(img, vox, axis, 0)]

\* LoopAlongSingleAxis::Run::operator bool
LoopAlongSingleAxis_bool(r, img) == index(img[first(r)], r.axis) < r.size0

\* LoopAlongSingleAxis::Run::operator++
LoopAlongSingleAxis_inc(r, img) ==
  [run |-> r, image |-> inc_pos(img, r.vox, r.axis)]

\* LoopAlongSingleAxisProgress::Run::Run
LoopAlongSingleAxisProgress_Run(axis, vox, img) ==
  [run |-> [kind |-> "single", axis |-> axis, from |-> 0, to |-> 0, axes |-> <<>>,
            vox |-> vox, size0 |-> size(img[vox[1]], axis), ok |-> TRUE,
            progress |-> ProgressBar(size(img[vox[1]], axis))],
   image |-> set_pos(img, vox, axis, 0)]

\* LoopAlongSingleAxisProgress::Run::operator bool
LoopAlongSingleAxisProgress_bool(r, img) == index(img[first(r)], r.axis) < r.size0

\* LoopAlongSingleAxisProgress::Run::operator++ with a fault: ++progress twice
LoopAlongSingleAxisProgress_inc_twice(r, img) ==
  [run |-> [r EXCEPT !.progress = ProgressBar_inc(ProgressBar_inc(@))],
   image |-> inc_pos(img, r.vox, r.axis)]

\* LoopAlongSingleAxisProgress::Run::operator++
LoopAlongSingleAxisProgress_inc(r, img) ==
  [run |-> [r EXCEPT !.progress = ProgressBar_inc(@)],
   image |-> inc_pos(img, r.vox, r.axis)]

\* LoopAlongAxisRange::Run::Run with a fault: every axis from axis_from up is
\* set to 0, whatever axis_to
LoopAlongAxisRange_Run_all(axis_from, axis_to, vox, img) ==
  LET to == IF axis_to # 0 THEN axis_to ELSE ndim(img[vox[1]])
  IN  [run |-> [kind |-> "range", axis |-> 0, from |-> axis_from, to |-> to,
                axes |-> <<>>, vox |-> vox, size0 |-> size(img[vox[1]], axis_from),
                ok |-> TRUE, progress |-> NoProgress],
       image |-> set_pos_range(img, vox, axis_from, ndim(img[vox[1]]))]

\* LoopAlongAxisRange::Run::Run
LoopAlongAxisRange_Run(axis_from, axis_to, vox, img) ==
  LET to == IF axis_to # 0 THEN axis_to ELSE ndim(img[vox[1]])
  IN  [run |-> [kind |-> "range", axis |-> 0, from |-> axis_from, to |-> to,
                axes |-> <<>>, vox |-> vox, size0 |-> size(img[vox[1]], axis_from),
                ok |-> TRUE, progress |-> NoProgress],
       image |-> set_pos_range(img, vox, axis_from, to)]

\* LoopAlongAxisRange::Run::operator bool
LoopAlongAxisRange_bool(r, img) == r.ok

\* LoopAlongAxisRange::Run::operator++, the while loop from `axis` on
RECURSIVE LoopAlongAxisRange_carry(_, _, _)
LoopAlongAxisRange_carry(r, img, axis) ==
  IF axis < r.to
    THEN LET img1 == inc_pos(img, r.vox, axis)
         IN  IF index(img1[first(r)], axis) < size(img1[first(r)], axis)
               THEN [run |-> r, image |-> img1]
               ELSE LoopAlongAxisRange_carry(r, set_pos(img1, r.vox, axis, 0), axis + 1)
    ELSE [run |-> [r EXCEPT !.ok = FALSE], image |-> img]

\* LoopAlongAxisRange::Run::operator++ with a fault: the test is <= size0
LoopAlongAxisRange_inc_le(r, img) ==
  LET img1 == inc_pos(img, r.vox, r.from)
  IN  IF index(img1[first(r)], r.from) <= r.size0
        THEN [run |-> r, image |-> img1]
        ELSE LoopAlongAxisRange_carry(r, set_pos(img1, r.vox, r.from, 0), r.from + 1)

\* LoopAlongAxisRange::Run::operator++ with a fault: ok is set again whenever
\* the first axis is within its extent
LoopAlongAxisRange_inc_revive(r, img) ==
  LET img1 == inc_pos(img, r.vox, r.from)
  IN  IF index(img1[first(r)], r.from) < r.size0
        THEN [run |-> [r EXCEPT !.ok = TRUE], image |-> img1]
        ELSE LoopAlongAxisRange_carry(r, set_pos(img1, r.vox, r.from, 0), r.from + 1)

\* LoopAlongAxisRange::Run::operator++ with a fault: on exhaustion the carry
\* goes on into the axis after the range
LoopAlongAxisRange_inc_beyond(r, img) ==
  LET img1 == inc_pos(img, r.vox, r.from)
  IN  IF index(img1[first(r)], r.from) < r.size0
        THEN [run |-> r, image |-> img1]
        ELSE LET c == LoopAlongAxisRange_carry(r, set_pos(img1, r.vox, r.from, 0), r.from + 1)
             IN  IF c.run.ok \/ r.to >= ndim(img[first(r)])
                   THEN c
                   ELSE [run |-> c.run, image |-> inc_pos(c.image, r.vox, r.to)]

\* LoopAlongAxisRange::Run::operator++ with a fault: ok is never set to false,
\* the count wraps round to the first position
LoopAlongAxisRange_inc_wrap(r, img) ==
  LET img1 == inc_pos(img, r.vox, r.from)
  IN  IF index(img1[first(r)], r.from) < r.size0
        THEN [run |-> r, image |-> img1]
        ELSE LET c == LoopAlongAxisRange_carry(r, set_pos(img1, r.vox, r.from, 0), r.from + 1)
             IN  [run |-> [c.run EXCEPT !.ok = TRUE], image |-> c.image]

\* LoopAlongAxisRange::Run::operator++
LoopAlongAxisRange_inc(r, img) ==
  LET img1 == inc_pos(img, r.vox, r.from)
  IN  IF index(img1[first(r)], r.from) < r.size0
        THEN [run |-> r, image |-> img1]
        ELSE LoopAlongAxisRange_carry(r, set_pos(img1, r.vox, r.from, 0), r.from + 1)

\* LoopAlongAxisRangeProgress::Run::Run: the constructor's own from and to
\* arguments reach voxel_count, not the members the base class resolved
LoopAlongAxisRangeProgress_Run(axis_from, axis_to, vox, img) ==
  LET base == LoopAlongAxisRange_Run(axis_from, axis_to, vox, img)
  IN  [run |-> [base.run EXCEPT !.progress =
                  ProgressBar(voxel_count_range(img[vox[1]], axis_from, axis_to))],
       image |-> base.image]

\* LoopAlongAxisRangeProgress::Run::operator++
LoopAlongAxisRangeProgress_inc(r, img) ==
  LET base == LoopAlongAxisRange_inc(r, img)
  IN  [run |-> [base.run EXCEPT !.progress = ProgressBar_inc(@)], image |-> base.image]

\* LoopAlongStaticAxes::Run::Run with a fault: from is the last listed axis
LoopAlongStaticAxes_Run_last(axes, vox, img) ==
  [run |-> [kind |-> "static", axis |-> 0, from |-> axes[Len(axes)], to |-> 0,
            axes |-> axes, vox |-> vox, size0 |-> size(img[vox[1]], axes[Len(axes)]),
            ok |-> TRUE, progress |-> NoProgress],
   image |-> set_pos_each(img, vox, axes, 1)]

\* LoopAlongStaticAxes::Run::Run
LoopAlongStaticAxes_Run(axes, vox, img) ==
  [run |-> [kind |-> "static", axis |-> 0, from |-> axes[1], to |-> 0,
            axes |-> axes, vox |-> vox, size0 |-> size(img[vox[1]], axes[1]),
            ok |-> TRUE, progress |-> NoProgress],
   image |-> set_pos_each(img, vox, axes, 1)]

\* LoopAlongStaticAxes::Run::operator bool
LoopAlongStaticAxes_bool(r, img) == r.ok

\* LoopAlongStaticAxes::Run::operator++, the while loop from list position k on
RECURSIVE LoopAlongStaticAxes_carry(_, _, _)
LoopAlongStaticAxes_carry(r, img, k) ==
  IF k <= Len(r.axes)
    THEN LET img1 == inc_pos(img, r.vox, r.axes[k])
         IN  IF index(img1[first(r)], r.axes[k]) < size(img1[first(r)], r.axes[k])
               THEN [run |-> r, image |-> img1]
               ELSE LoopAlongStaticAxes_carry(r, set_pos(img1, r.vox, r.axes[k], 0), k + 1)
    ELSE [run |-> [r EXCEPT !.ok = FALSE], image |-> img]

\* LoopAlongStaticAxes::Run::operator++ with a fault: the first axis is left
\* where it overflowed
LoopAlongStaticAxes_inc_noreset(r, img) ==
  LET img1 == inc_pos(img, r.vox, r.from)
  IN  IF index(img1[first(r)], r.from) < r.size0
        THEN [run |-> r, image |-> img1]
        ELSE LoopAlongStaticAxes_carry(r, img1, 2)

\* LoopAlongStaticAxes::Run::operator++ with a fault: the test is <= size0
LoopAlongStaticAxes_inc_le(r, img) ==
  LET img1 == inc_pos(img, r.vox, r.from)
  IN  IF index(img1[first(r)], r.from) <= r.size0
        THEN [run |-> r, image |-> img1]
        ELSE LoopAlongStaticAxes_carry(r, set_pos(img1, r.vox, r.from, 0), 2)

\* LoopAlongStaticAxes::Run::operator++
LoopAlongStaticAxes_inc(r, img) ==
  LET img1 == inc_pos(img, r.vox, r.from)
  IN  IF index(img1[first(r)], r.from) < r.size0
        THEN [run |-> r, image |-> img1]
        ELSE LoopAlongStaticAxes_carry(r, set_pos(img1, r.vox, r.from, 0), 2)

\* LoopAlongStaticAxesProgress::Run::Run
LoopAlongStaticAxesProgress_Run(axes, vox, img) ==
  LET base == LoopAlongStaticAxes_Run(axes, vox, img)
  IN  [run |-> [base.run EXCEPT !.progress =
                  ProgressBar(voxel_count_axes(img[vox[1]], axes, 1))],
       image |-> base.image]

\* LoopAlongStaticAxesProgress::Run::operator++
LoopAlongStaticAxesProgress_inc(r, img) ==
  LET base == LoopAlongStaticAxes_inc(r, img)
  IN  [run |-> [base.run EXCEPT !.progress = ProgressBar_inc(@)], image |-> base.image]

\* LoopAlongDynamicAxes::Run::Run with a fault: from is the last listed axis
LoopAlongDynamicAxes_Run_last(axes, vox, img) ==
  [run |-> [kind |-> "dynamic", axis |-> 0, from |-> axes[Len(axes)], to |-> 0,
            axes |-> axes, vox |-> vox, size0 |-> size(img[vox[1]], axes[Len(axes)]),
            ok |-> TRUE, progress |-> NoProgress],
   image |-> set_pos_each(img, vox, axes, 1)]

\* LoopAlongDynamicAxes::Run::Run with a fault: size0 is read from the last image
LoopAlongDynamicAxes_Run_lastview(axes, vox, img) ==
  [run |-> [kind |-> "dynamic", axis |-> 0, from |-> axes[1], to |-> 0,
            axes |-> axes, vox |-> vox, size0 |-> size(img[vox[Len(vox)]], axes[1]),
            ok |-> TRUE, progress |-> NoProgress],
   image |-> set_pos_each(img, vox, axes, 1)]

\* LoopAlongDynamicAxes::Run::Run with a fault: the positions are left as
\* they were
LoopAlongDynamicAxes_Run_keep(axes, vox, img) ==
  [run |-> [kind |-> "dynamic", axis |-> 0, from |-> axes[1], to |-> 0,
            axes |-> axes, vox |-> vox, size0 |-> size(img[vox[1]], axes[1]),
            ok |-> TRUE, progress |-> NoProgress],
   image |-> img]

\* LoopAlongDynamicAxes::Run::Run
LoopAlongDynamicAxes_Run(axes, vox, img) ==
  [run |-> [kind |-> "dynamic", axis |-> 0, from |-> axes[1], to |-> 0,
            axes |-> axes, vox |-> vox, size0 |-> size(img[vox[1]], axes[1]),
            ok |-> TRUE, progress |-> NoProgress],
   image |-> set_pos_each(img, vox, axes, 1)]

\* LoopAlongDynamicAxes::Run::operator bool
LoopAlongDynamicAxes_bool(r, img) == r.ok

\* LoopAlongDynamicAxes::Run::operator++, the while loop from list position k on:
\* the axis before k is zeroed, then axis k is incremented and tested
RECURSIVE LoopAlongDynamicAxes_carry(_, _, _)
LoopAlongDynamicAxes_carry(r, img, k) ==
  IF k <= Len(r.axes)
    THEN LET img1 == set_pos(img, r.vox, r.axes[k - 1], 0)
             img2 == inc_pos(img1, r.vox, r.axes[k])
         IN  IF index(img2[first(r)], r.axes[k]) < size(img2[first(r)], r.axes[k])
               THEN [run |-> r, image |-> img2]
               ELSE LoopAlongDynamicAxes_carry(r, img2, k + 1)
    ELSE [run |-> [r EXCEPT !.ok = FALSE], image |-> img]

\* LoopAlongDynamicAxes::Run::operator++ with a fault: the walk over the
\* further axes starts at the third listed axis
LoopAlongDynamicAxes_inc_late(r, img) ==
  LET img1 == inc_pos(img, r.vox, r.from)
  IN  IF index(img1[first(r)], r.from) < r.size0
        THEN [run |-> r, image |-> img1]
        ELSE LoopAlongDynamicAxes_carry(r, img1, 3)

\* LoopAlongDynamicAxes::Run::operator++
LoopAlongDynamicAxes_inc(r, img) ==
  LET img1 == inc_pos(img, r.vox, r.from)
  IN  IF index(img1[first(r)], r.from) < r.size0
        THEN [run |-> r, image |-> img1]
        ELSE LoopAlongDynamicAxes_carry(r, img1, 2)

\* LoopAlongDynamicAxesProgress::Run::Run
LoopAlongDynamicAxesProgress_Run(axes, vox, img) ==
  LET base == LoopAlongDynamicAxes_Run(axes, vox, img)
  IN  [run |-> [base.run EXCEPT !.progress =
                  ProgressBar(voxel_count_axes(img[vox[1]], axes, 1))],
       image |-> base.image]

\* LoopAlongDynamicAxesProgress::Run::operator++
LoopAlongDynamicAxesProgress_inc(r, img) ==
  LET base == LoopAlongDynamicAxes_inc(r, img)
  IN  [run |-> [base.run EXCEPT !.progress = ProgressBar_inc(@)], image |-> base.image]

(***************************************************************************)
(* The request objects and their operator(): a request is a record         *)
(*   [kind, progress, axis, from, to, axes]                                *)
(* holding what the Loop* struct of that kind holds.                       *)
(***************************************************************************)
NoReq == [kind |-> "none", progress |-> FALSE, axis |-> 0, from |-> 0, to |-> 0,
          axes |-> <<>>]
NoRun == [kind |-> "none", axis |-> 0, from |-> 0, to |-> 0, axes |-> <<>>,
          vox |-> <<>>, size0 |-> 0, ok |-> FALSE, progress |-> NoProgress]
NoOrigin == [source |-> 0, from |-> 0, to |-> 0]

\* a second cursor of the caller, not yet built: its request, the cursor, the
\* caller's place in its for statement and what the caller did with it
NoOther == [pc |-> "idle"]

\* Loop* ::operator() (ImageType&... images): the Run the request builds
Loop_call(rq, vox, img) ==
  CASE rq.kind = "single" /\ ~rq.progress -> LoopAlongSingleAxis_Run(rq.axis, vox, img)
    [] rq.kind = "single" /\ rq.progress -> LoopAlongSingleAxisProgress_Run(rq.axis, vox, img)
    [] rq.kind = "range" /\ ~rq.progress -> LoopAlongAxisRange_Run(rq.from, rq.to, vox, img)
    [] rq.kind = "range" /\ rq.progress -> LoopAlongAxisRangeProgress_Run(rq.from, rq.to, vox, img)
    [] rq.kind = "axes" /\ ~rq.progress -> LoopAlongAxisRange_Run(0, ndim(img[vox[1]]), vox, img)
    [] rq.kind = "axes" /\ rq.progress ->
         LoopAlongAxisRangeProgress_Run(0, ndim(img[vox[1]]), vox, img)
    [] rq.kind = "static" /\ ~rq.progress -> LoopAlongStaticAxes_Run(rq.axes, vox, img)
    [] rq.kind = "static" /\ rq.progress -> LoopAlongStaticAxesProgress_Run(rq.axes, vox, img)
    [] rq.kind = "dynamic" /\ ~rq.progress -> LoopAlongDynamicAxes_Run(rq.axes, vox, img)
    [] rq.kind = "dynamic" /\ rq.progress -> LoopAlongDynamicAxesProgress_Run(rq.axes, vox, img)

\* Run::operator bool of the cursor's class
Run_bool(r, img) ==
  CASE r.kind = "single" /\ ~r.progress.active -> LoopAlongSingleAxis_bool(r, img)
    [] r.kind = "single" /\ r.progress.active -> LoopAlongSingleAxisProgress_bool(r, img)
    [] r.kind = "range" -> LoopAlongAxisRange_bool(r, img)
    [] r.kind = "static" -> LoopAlongStaticAxes_bool(r, img)
    [] r.kind = "dynamic" -> LoopAlongDynamicAxes_bool(r, img)

\* Run::operator bool with a fault: a test that consumes, moving the cursor on
\* as operator++ does
Run_test_consuming(r, img) ==
  LET c == IF r.kind = "single" THEN LoopAlongSingleAxis_inc(r, img)
           ELSE IF r.kind = "range" THEN LoopAlongAxisRange_inc(r, img)
           ELSE IF r.kind = "static" THEN LoopAlongStaticAxes_inc(r, img)
           ELSE LoopAlongDynamicAxes_inc(r, img)
  IN  [value |-> Run_bool(r, img), run |-> c.run, image |-> c.image]

\* Run::operator bool () const as the caller's statement: the value it returns
\* and the cursor and the images it leaves, which a const member that reads
\* vox and ok leaves as they were
Run_test(r, img) == [value |-> Run_bool(r, img), run |-> r, image |-> img]

\* Run::operator++ of the cursor's class
Run_inc(r, img) ==
  CASE r.kind = "single" /\ ~r.progress.active -> LoopAlongSingleAxis_inc(r, img)
    [] r.kind = "single" /\ r.progress.active -> LoopAlongSingleAxisProgress_inc(r, img)
    [] r.kind = "range" /\ ~r.progress.active -> LoopAlongAxisRange_inc(r, img)
    [] r.kind = "range" /\ r.progress.active -> LoopAlongAxisRangeProgress_inc(r, img)
    [] r.kind = "static" /\ ~r.progress.active -> LoopAlongStaticAxes_inc(r, img)
    [] r.kind = "static" /\ r.progress.active -> LoopAlongStaticAxesProgress_inc(r, img)
    [] r.kind = "dynamic" /\ ~r.progress.active -> LoopAlongDynamicAxes_inc(r, img)
    [] r.kind = "dynamic" /\ r.progress.active -> LoopAlongDynamicAxesProgress_inc(r, img)

(***************************************************************************)
(* The inputs: what the images are, and which requests and image tuples    *)
(* satisfy the preconditions of the looping functions.                     *)
(***************************************************************************)
\* the index an image holds before any loop has touched it
StartIndex(i) == [n \in Axes |-> n + i]

\* memory layouts: contiguous; the layout [ 2 -1 3 ] of the documentation;
\* reversed with negative strides; two axes of equal absolute stride
StrideContiguous == [n \in Axes |-> n + 1]
StrideSet ==
  { StrideContiguous,
    [n \in Axes |-> IF n = 0 THEN 2 ELSE IF n = 1 THEN -1 ELSE n + 1],
    [n \in Axes |-> n - NDim],
    [n \in Axes |-> IF n = 0 THEN 2 ELSE IF n = 1 THEN -1 ELSE 1] }

\* image 2 has the extents of image 1 but for one more position on the last axis
Images(sz, st1, st2) ==
  [i \in ImageIds |->
     [size |-> IF i = 1 THEN sz ELSE [sz EXCEPT ![NDim - 1] = @ + 1],
      index |-> StartIndex(i),
      stride |-> IF i = 1 THEN st1 ELSE st2]]

\* lists of distinct axes, of length >= 1
AxisLists ==
  { s \in UNION { [1 .. k -> Axes] : k \in 1 .. NDim } :
      \A i, j \in DOMAIN s : i # j => s[i] # s[j] }

\* the image tuples a request is applied to
ViewTuples == { <<1>>, <<1, 2>> }

(***************************************************************************)
(* Actions.  pc is the caller's place in                                   *)
(*   auto loop = Loop (...);  for (auto l = loop (images...); l; ++l) body *)
(* nbody and nadv count what the caller did: the entries into the body    *)
(* (one per true condition) and the ++l.  nextra counts the ++l a caller   *)
(* makes after the condition was false, and seen holds the positions a     *)
(* caller's body has recorded; the plain for loop does neither.            *)
(* other is a second cursor of a caller that runs two, and again tells     *)
(* where a caller that has applied its request a second time had left its  *)
(* first loop ("no" before that).                                          *)
(***************************************************************************)
InitWith(strides2) ==
  /\ \E sz \in [Axes -> 0 .. MaxExtent], st2 \in strides2 :
       image = Images(sz, StrideContiguous, st2)
  /\ req = NoReq
  /\ origin = NoOrigin
  /\ run = NoRun
  /\ pc = "idle"
  /\ nbody = 0
  /\ nadv = 0
  /\ nextra = 0
  /\ seen = {}
  /\ other = NoOther
  /\ again = "no"

Init == InitWith({StrideContiguous})

InitStride == InitWith(StrideSet)

Requested(rq, org) ==
  /\ req' = rq
  /\ origin' = org
  /\ pc' = "request"
  /\ UNCHANGED <<image, run, nbody, nadv, nextra, seen, other, again>>

\* Loop () and Loop (progress_message)
Loop_axes ==
  /\ pc = "idle"
  /\ \E p \in BOOLEAN :
       Requested([NoReq EXCEPT !.kind = "axes", !.progress = p], origin)

\* Loop (axis) and Loop (progress_message, axis)
Loop_axis ==
  /\ pc = "idle"
  /\ \E p \in BOOLEAN, axis \in Axes :
       Requested([NoReq EXCEPT !.kind = "single", !.progress = p, !.axis = axis], origin)

\* Loop (axis_from, axis_to) and Loop (progress_message, axis_from, axis_to);
\* axis_to = 0 stands for the number of axes of the first image
Loop_range ==
  /\ pc = "idle"
  /\ \E p \in BOOLEAN, axis_from \in Axes :
       \E axis_to \in {0} \cup ((axis_from + 1) .. NDim) :
         Requested([NoReq EXCEPT !.kind = "range", !.progress = p,
                                 !.from = axis_from, !.to = axis_to], origin)

\* Loop (std::initializer_list<size_t>) and its progress form
Loop_static ==
  /\ pc = "idle"
  /\ \E p \in BOOLEAN, axes \in AxisLists :
       Requested([NoReq EXCEPT !.kind = "static", !.progress = p, !.axes = axes], origin)

\* Loop (const std::vector<size_t>&) and its progress form
Loop_dynamic ==
  /\ pc = "idle"
  /\ \E p \in BOOLEAN, axes \in AxisLists :
       Requested([NoReq EXCEPT !.kind = "dynamic", !.progress = p, !.axes = axes], origin)

\* Loop (source, axis_from, axis_to) and its progress form; axis_to defaults to
\* the largest size_t
Loop_source ==
  /\ pc = "idle"
  /\ \E p \in BOOLEAN, s \in ImageIds, axis_from \in Axes :
       \E axis_to \in {size_t_max} \cup ((axis_from + 1) .. NDim) :
         Requested([NoReq EXCEPT !.kind = "dynamic", !.progress = p,
                                 !.axes = Stride_order(image[s], axis_from, axis_to)],
                   [source |-> s, from |-> axis_from, to |-> axis_to])

\* loop (images...): the for statement's initialiser
Apply ==
  /\ pc = "request"
  /\ \E vox \in ViewTuples :
       LET c == Loop_call(req, vox, image)
       IN  /\ run' = c.run
           /\ image' = c.image
  /\ pc' = "check"
  /\ UNCHANGED <<req, origin, nbody, nadv, nextra, seen, other, again>>

\* the for statement's condition, operator bool, and the entry into the body
Check ==
  /\ pc = "check"
  /\ LET t == Run_test(run, image)
     IN  /\ run' = t.run
         /\ image' = t.image
         /\ IF t.value
              THEN /\ pc' = "body"
                   /\ nbody' = nbody + 1
              ELSE /\ pc' = "done"
                   /\ UNCHANGED nbody
  /\ UNCHANGED <<req, origin, nadv, nextra, seen, other, again>>

\* the for statement's ++l
Advance ==
  /\ pc = "body"
  /\ LET c == Run_inc(run, image)
     IN  /\ run' = c.run
         /\ image' = c.image
  /\ nadv' = nadv + 1
  /\ pc' = "check"
  /\ UNCHANGED <<req, origin, nbody, nextra, seen, other, again>>

Next ==
  \/ Loop_axes
  \/ Loop_axis
  \/ Loop_range
  \/ Loop_static
  \/ Loop_dynamic
  \/ Apply
  \/ Check
  \/ Advance

Spec == Init /\ [][Next]_vars

NextStride ==
  \/ Loop_source
  \/ Apply
  \/ Check
  \/ Advance

SpecStride == InitStride /\ [][NextStride]_vars

(***************************************************************************)
(* What the properties speak of.                                           *)
(***************************************************************************)
\* a cursor has been constructed
Bound == pc \in {"check", "body", "done"}

\* the first image of the tuple the cursor is bound to
A == image[run.vox[1]]

\* <<a, a+1, ..., b-1>>
Interval(a, b) == [k \in 1 .. (b - a) |-> a + k - 1]

\* the axes the request selects, innermost first
AxisOrder ==
  CASE req.kind = "single" -> <<req.axis>>
    [] req.kind = "range" -> Interval(req.from, IF req.to = 0 THEN NDim ELSE req.to)
    [] req.kind = "axes" -> Interval(0, NDim)
    [] req.kind \in {"static", "dynamic"} -> req.axes
    [] OTHER -> <<>>

\* the product of the extents sz of the first j axes of the list ord
RECURSIVE ProductUpTo(_, _, _)
ProductUpTo(sz, ord, j) ==
  IF j = 0 THEN 1 ELSE sz[ord[j]] * ProductUpTo(sz, ord, j - 1)

\* the product of the first image's extents over the selected axes
Total == ProductUpTo(A.size, AxisOrder, Len(AxisOrder))

AllPositive == \A j \in DOMAIN AxisOrder : A.size[AxisOrder[j]] >= 1
SomeZero == \E j \in DOMAIN AxisOrder : A.size[AxisOrder[j]] = 0

\* where literal nested loops over the axes ord of extents sz, ord[1] innermost,
\* hold axis ord[j] when their body runs for the (k+1)-th time
Digit(sz, ord, k, j) == (k \div ProductUpTo(sz, ord, j - 1)) % sz[ord[j]]

\* the images of the tuple agree on the size of every selected axis
MatchingExtents ==
  \A u, v \in DOMAIN run.vox : \A j \in DOMAIN AxisOrder :
    image[run.vox[u]].size[AxisOrder[j]] = image[run.vox[v]].size[AxisOrder[j]]

(***************************************************************************)
(* C1.  When every selected axis of the first image has extent >= 1, the   *)
(* loop has made product-of-extents advance calls and run its body that    *)
(* many times when the cursor first tests false, whatever the request form *)
(* and the image tuple; while the body runs it has made fewer.             *)
(***************************************************************************)
C1_IterationCount ==
  (Bound /\ AllPositive) =>
     LET total == Total
     IN  /\ nbody <= total
         /\ pc = "done" => (nadv = total /\ nbody = total)
         /\ pc = "body" => nadv < total

C1_Witness ==
  /\ pc = "done"
  /\ AllPositive
  /\ req.kind = "axes"
  /\ Len(run.vox) = 2
  /\ nadv = Total
  /\ Total >= 8

(***************************************************************************)
(* C2.  Zero iterations occur iff some selected axis has extent 0: with an *)
(* axis of extent 0 the body is never entered and no advance is made, and  *)
(* without one the body is entered at least once.                          *)
(***************************************************************************)
C2_ZeroIterationsIffZeroExtent ==
  Bound =>
     /\ (pc = "body" => ~SomeZero)
     /\ (SomeZero => nadv = 0)
     /\ (pc = "done" => (nbody = 0 <=> SomeZero))

(***************************************************************************)
(* C3.  With all selected extents >= 1 the position at the k-th entry into *)
(* the body is the k-th position of literal nested loops with the first    *)
(* listed axis innermost, on every image of the tuple, and the loop ends   *)
(* after the last of them.                                                 *)
(***************************************************************************)
C3_NestedLoopOrder ==
  (Bound /\ AllPositive) =>
     LET ord == AxisOrder
         sz == A.size
     IN  /\ pc = "body" =>
              /\ nbody <= ProductUpTo(sz, ord, Len(ord))
              /\ \A j \in DOMAIN ord : \A v \in DOMAIN run.vox :
                   image[run.vox[v]].index[ord[j]] = Digit(sz, ord, nbody - 1, j)
         /\ pc = "done" => nbody = ProductUpTo(sz, ord, Len(ord))

C3_Witness ==
  /\ pc = "body"
  /\ req.kind \in {"static", "dynamic"}
  /\ req.axes = <<1, 0, 2>>
  /\ \A n \in 0 .. 2 : A.size[n] = 2
  /\ nbody = 7
  /\ A.index[1] = 0 /\ A.index[0] = 1 /\ A.index[2] = 1

(***************************************************************************)
(* C4.  After construction and after every advance, the exhausting one     *)
(* included, all images of the tuple hold the same position on every       *)
(* selected axis.                                                          *)
(***************************************************************************)
C4_ViewsInLockStep ==
  (Bound /\ Len(run.vox) >= 2) =>
     LET ord == AxisOrder
     IN  \A j \in DOMAIN ord : \A u, v \in DOMAIN run.vox :
           image[run.vox[u]].index[ord[j]] = image[run.vox[v]].index[ord[j]]

C4_Witness ==
  /\ pc = "done"
  /\ Len(run.vox) = 2
  /\ MatchingExtents
  /\ Len(AxisOrder) = 2
  /\ nadv >= 4

\* the case of C5: the axis list [1,0] on a first image of extents 2 and 2
C5_Case ==
  /\ Bound
  /\ req.kind \in {"static", "dynamic"}
  /\ req.axes = <<1, 0>>
  /\ A.size[0] = 2
  /\ A.size[1] = 2

C5_VisitedInOrder(seq) ==
  C5_Case =>
     /\ pc = "body" => (nbody <= Len(seq) /\ <<A.index[0], A.index[1]>> = seq[nbody])
     /\ pc = "done" => nbody = Len(seq)

(***************************************************************************)
(* C5 as claimed.  For the axis list [1,0] on extents 2 and 2 the (axis 0, *)
(* axis 1) positions are visited in the order (0,0),(1,0),(0,1),(1,1),     *)
(* axis 0 inner, and then the cursor is exhausted.                         *)
(***************************************************************************)
C5_Axis0Inner == C5_VisitedInOrder(<< <<0, 0>>, <<1, 0>>, <<0, 1>>, <<1, 1>> >>)

(***************************************************************************)
(* C5 as amended.  For the axis list [1,0] on extents 2 and 2 the (axis 0, *)
(* axis 1) positions are visited in the order (0,0),(0,1),(1,0),(1,1):     *)
(* axis 1, listed first, is the inner axis and axis 0 the outer; then the  *)
(* cursor is exhausted.                                                    *)
(***************************************************************************)
C5_Axis1Inner == C5_VisitedInOrder(<< <<0, 0>>, <<0, 1>>, <<1, 0>>, <<1, 1>> >>)

C5_Witness ==
  /\ C5_Case
  /\ pc = "body"
  /\ nbody = 2
  /\ A.index[0] = 0
  /\ A.index[1] = 1

(***************************************************************************)
(* Stride-ordered requests: origin records the Loop (source, from, to)     *)
(* call that built the request.                                            *)
(***************************************************************************)
FromSource == origin.source # 0
S == image[origin.source]
SourceTo == IF origin.to > NDim THEN NDim ELSE origin.to

\* ax lists the axes of [lo, hi), each once, by ascending |st|, equal |st| by
\* ascending axis
IsStrideOrder(ax, st, lo, hi) ==
  /\ Len(ax) = hi - lo
  /\ {ax[k] : k \in DOMAIN ax} = lo .. (hi - 1)
  /\ \A i, j \in DOMAIN ax :
       i < j => \/ Abs(st[ax[i]]) < Abs(st[ax[j]])
                \/ Abs(st[ax[i]]) = Abs(st[ax[j]]) /\ ax[i] < ax[j]

(***************************************************************************)
(* C6 as claimed.  A stride-order request built from image S and applied   *)
(* to a tuple with first image A iterates in the stride order of A and     *)
(* with the extents of A.                                                  *)
(***************************************************************************)
C6_OrderAndExtentsOfFirstView ==
  (Bound /\ FromSource) =>
     /\ IsStrideOrder(run.axes, A.stride, origin.from, SourceTo)
     /\ run.size0 = A.size[run.from]
     /\ (pc = "done" /\ AllPositive) => nbody = Total

(***************************************************************************)
(* C6 as amended.  A stride-order request built from image S and applied   *)
(* to a tuple with first image A iterates in the stride order of S, fixed  *)
(* when the request was built; only the extents are those of A, the first  *)
(* image supplied when the request is applied.                             *)
(***************************************************************************)
C6_OrderOfSourceExtentsOfFirstView ==
  (Bound /\ FromSource) =>
     /\ IsStrideOrder(run.axes, S.stride, origin.from, SourceTo)
     /\ run.size0 = A.size[run.from]
     /\ (pc = "done" /\ AllPositive) => nbody = Total

C6_Witness ==
  /\ pc = "done"
  /\ origin.source = 2
  /\ run.vox = <<1, 2>>
  /\ ~IsStrideOrder(run.axes, A.stride, origin.from, SourceTo)
  /\ image[run.vox[2]].size[run.from] # A.size[run.from]
  /\ nbody = Total
  /\ Total >= 4

(***************************************************************************)
(* C7.  A stride-order request over the axes [from, to) of its source      *)
(* iterates exactly those axes, each once, by ascending absolute stride,   *)
(* equal strides by ascending axis; the axis of smallest absolute stride   *)
(* is the innermost: it is the one the cursor drives, and the first        *)
(* advance moves it alone.                                                 *)
(***************************************************************************)
C7_StrideOrder ==
  (Bound /\ FromSource) =>
     /\ Len(run.axes) = SourceTo - origin.from
     /\ \A n \in origin.from .. (SourceTo - 1) :
          Cardinality({k \in DOMAIN run.axes : run.axes[k] = n}) = 1
     /\ \A k \in 1 .. (Len(run.axes) - 1) :
          \/ Abs(S.stride[run.axes[k]]) < Abs(S.stride[run.axes[k + 1]])
          \/ /\ Abs(S.stride[run.axes[k]]) = Abs(S.stride[run.axes[k + 1]])
             /\ run.axes[k] < run.axes[k + 1]
     /\ \A n \in origin.from .. (SourceTo - 1) :
          Abs(S.stride[run.from]) <= Abs(S.stride[n])
     /\ (nadv = 1 /\ A.size[run.from] >= 2) =>
          \A n \in origin.from .. (SourceTo - 1) :
            A.index[n] = IF n = run.from THEN 1 ELSE 0

C7_Witness ==
  /\ pc = "body"
  /\ FromSource
  /\ nadv = 1
  /\ S.stride[0] = 2 /\ S.stride[1] = -1 /\ S.stride[2] = 1
  /\ run.axes = <<1, 2, 0>>
  /\ A.index[1] = 1

(***************************************************************************)
(* C8.  The progress counter never exceeds the total computed at           *)
(* construction and equals it when the cursor is exhausted, for every      *)
(* selection, extent 0 included.                                           *)
(***************************************************************************)
C8_ProgressBounded ==
  (Bound /\ run.progress.active) =>
     /\ run.progress.count <= run.progress.total
     /\ pc = "done" => run.progress.count = run.progress.total

(***************************************************************************)
(* C9.  The progress total computed at construction is the product of the  *)
(* first image's extents over the axes the cursor iterates, also for the   *)
(* range form called with to = 0.                                          *)
(***************************************************************************)
C9_ProgressTotal ==
  (Bound /\ run.progress.active) => run.progress.total = Total

(***************************************************************************)
(* The plain cursor of the same request on the same images.                *)
(***************************************************************************)
\* the images as they were before the request was applied
Image0 == [i \in ImageIds |-> [image[i] EXCEPT !.index = StartIndex(i)]]

\* the request without its progress message
PlainReq == [req EXCEPT !.progress = FALSE]

\* a cursor without its progress bar: a cursor of the plain class
Plain(r) == [r EXCEPT !.progress = NoProgress]

(***************************************************************************)
(* C10.  Progress decoration is observational.  A progress cursor starts   *)
(* as the plain cursor of the same request does, on the same images; each  *)
(* of its advances moves the cursor and every image exactly as the plain   *)
(* advance does from there and counts one; and it is live exactly when     *)
(* the plain cursor in its place is.  So both variants visit the same      *)
(* positions on all images and are exhausted after as many advances, and   *)
(* the counter is the number of advances.                                  *)
(***************************************************************************)
C10_ProgressObservational ==
  /\ []((Bound /\ req.progress) =>
          /\ run.progress.active
          /\ run.progress.count = nadv
          /\ Run_bool(run, image) = Run_bool(Plain(run), image)
          /\ nadv = 0 =>
               [run |-> Plain(run), image |-> image] = Loop_call(PlainReq, run.vox, Image0))
  /\ [][(Bound /\ req.progress /\ nadv' = nadv + 1) =>
          [run |-> Plain(run'), image |-> image'] = Run_inc(Plain(run), image)]_vars

C10_Witness ==
  /\ pc = "done"
  /\ req.progress
  /\ req.kind = "static"
  /\ Len(run.vox) = 2
  /\ SomeZero
  /\ nadv >= 4
  /\ run.progress.count = nadv

AxesBeyond == 0 .. NDim

\* the images with the cell next to their per-axis storage
ImagesBeyond(sz) ==
  [i \in ImageIds |->
     [size |-> sz,
      index |-> [n \in AxesBeyond |-> n + i],
      stride |-> [n \in AxesBeyond |-> n + 1]]]

\* lists of distinct axis identifiers that name the axis an image lacks, and
\* the empty list
IllegalAxisLists ==
  { <<>> } \cup
  { s \in UNION { [1 .. k -> AxesBeyond] : k \in 1 .. (NDim + 1) } :
      /\ \A i, j \in DOMAIN s : i # j => s[i] # s[j]
      /\ \E i \in DOMAIN s : s[i] = NDim }

\* the request selects no axis
EmptySelection(rq) ==
  \/ rq.kind = "range" /\ (IF rq.to = 0 THEN NDim ELSE rq.to) <= rq.from
  \/ rq.kind \in {"static", "dynamic"} /\ rq.axes = <<>>

\* the request names an axis >= ndim()
AxisOutOfRange(rq) ==
  \/ rq.kind = "single" /\ rq.axis >= NDim
  \/ rq.kind = "range" /\ (rq.from >= NDim \/ rq.to > NDim)
  \/ rq.kind \in {"static", "dynamic"} /\ \E k \in DOMAIN rq.axes : rq.axes[k] >= NDim

\* applying the request reaches past an image's storage or a list's elements
Undefined(rq) ==
  \/ AxisOutOfRange(rq)
  \/ rq.kind \in {"static", "dynamic"} /\ rq.axes = <<>>

InitIllegal ==
  /\ \E sz \in [AxesBeyond -> 0 .. MaxExtent] : image = ImagesBeyond(sz)
  /\ req = NoReq
  /\ origin = NoOrigin
  /\ run = NoRun
  /\ pc = "idle"
  /\ nbody = 0
  /\ nadv = 0
  /\ nextra = 0
  /\ seen = {}
  /\ other = NoOther
  /\ again = "no"

\* Loop (axis) with axis = ndim()
Loop_axis_illegal ==
  /\ pc = "idle"
  /\ Requested([NoReq EXCEPT !.kind = "single", !.axis = NDim], origin)

\* Loop (axis_from, axis_to) with an empty range or a range past the last axis
Loop_range_illegal ==
  /\ pc = "idle"
  /\ \E axis_from \in AxesBeyond, axis_to \in 0 .. (NDim + 1) :
       LET rq == [NoReq EXCEPT !.kind = "range", !.from = axis_from, !.to = axis_to]
       IN  /\ EmptySelection(rq) \/ AxisOutOfRange(rq)
           /\ Requested(rq, origin)

\* Loop ({ ... }) with an illegal list
Loop_static_illegal ==
  /\ pc = "idle"
  /\ \E axes \in IllegalAxisLists :
       Requested([NoReq EXCEPT !.kind = "static", !.axes = axes], origin)

\* Loop (std::vector<size_t>) with an illegal list
Loop_dynamic_illegal ==
  /\ pc = "idle"
  /\ \E axes \in IllegalAxisLists :
       Requested([NoReq EXCEPT !.kind = "dynamic", !.axes = axes], origin)

\* the program stops on an access outside its storage
Fault ==
  /\ pc' = "fault"
  /\ UNCHANGED <<image, req, origin, run, nbody, nadv, nextra, seen, other, again>>

\* the request is a list without elements
EmptyList(rq) == rq.kind \in {"static", "dynamic"} /\ rq.axes = <<>>

\* loop (images...) for such a request.  The constructors run unchecked; the
\* front of an empty list is whatever lies there, kept here when it lands on
\* an image's storage or next to it, and the loop over the list sets nothing
Apply_illegal ==
  /\ pc = "request"
  /\ \/ Undefined(req) /\ Fault
     \/ /\ EmptyList(req)
        /\ \E vox \in ViewTuples, g \in AxesBeyond :
             run' = [Loop_call([req EXCEPT !.axes = <<g>>], vox, image).run
                       EXCEPT !.axes = <<>>]
        /\ pc' = "check"
        /\ UNCHANGED <<image, req, origin, nbody, nadv, nextra, seen, other, again>>
     \/ /\ ~EmptyList(req)
        /\ \E vox \in ViewTuples :
             LET c == Loop_call(req, vox, image)
             IN  /\ run' = c.run
                 /\ image' = c.image
        /\ pc' = "check"
        /\ UNCHANGED <<req, origin, nbody, nadv, nextra, seen, other, again>>

\* ++l on such a cursor.  Past the overflow of its first axis the while loop
\* of an empty list starts behind the list's end and never meets it
Advance_illegal ==
  /\ pc = "body"
  /\ \/ Undefined(req) /\ Fault
     \/ LET c == Run_inc(run, image)
        IN  /\ ~(EmptyList(req) /\ ~c.run.ok)
            /\ run' = c.run
            /\ image' = c.image
            /\ nadv' = nadv + 1
            /\ pc' = "check"
            /\ UNCHANGED <<req, origin, nbody, nextra, seen, other, again>>

NextIllegal ==
  \/ Loop_axis_illegal
  \/ Loop_range_illegal
  \/ Loop_static_illegal
  \/ Loop_dynamic_illegal
  \/ Apply_illegal
  \/ Check
  \/ Advance_illegal

SpecIllegal == InitIllegal /\ [][NextIllegal]_vars

(***************************************************************************)
(* C12.  Applying a request whose selection is empty or names an axis      *)
(* >= ndim() of the first image fails fast: the construction ends in a     *)
(* fault, no cursor is produced, the body is never entered and no advance  *)
(* is made.                                                                *)
(***************************************************************************)
C12_IllegalSelectionFailsFast ==
  (EmptySelection(req) \/ AxisOutOfRange(req)) =>
     /\ pc \in {"request", "fault"}
     /\ run = NoRun
     /\ nbody = 0
     /\ nadv = 0

(***************************************************************************)
(* C13.  When two images of the tuple disagree on the extent of a selected *)
(* axis the iteration is aborted instead of proceeding: the body is never  *)
(* entered and no advance is made, so the first image's region is never    *)
(* iterated over an image of another extent.                               *)
(***************************************************************************)
C13_MismatchedExtentsAbort ==
  (Bound /\ ~MatchingExtents) =>
     /\ pc # "body"
     /\ nbody = 0
     /\ nadv = 0

(***************************************************************************)
(* The dynamic list form alone.                                            *)
(***************************************************************************)
NextDynamic ==
  \/ Loop_dynamic
  \/ Apply
  \/ Check
  \/ Advance

SpecDynamic == Init /\ [][NextDynamic]_vars

\* the cursor of the other list class holding the same members
AsStatic(r) == [r EXCEPT !.kind = "static"]
AsDynamic(r) == [r EXCEPT !.kind = "dynamic"]

(***************************************************************************)
(* C14.  The dynamic list cursor visits the positions the static list      *)
(* cursor visits for the same list and images, in the same order on every  *)
(* image, and is exhausted by the same advance: it starts as the static    *)
(* cursor starts, and from every state in which it is live its advance     *)
(* either leaves cursor and images exactly where the static advance        *)
(* leaves them, or exhausts the cursor as the static advance does.         *)
(***************************************************************************)
C14_DynamicAsStatic ==
  /\ []((Bound /\ req.kind = "dynamic" /\ nadv = 0) =>
          [run |-> AsStatic(run), image |-> image] =
             Loop_call([req EXCEPT !.kind = "static"], run.vox, Image0))
  /\ [][(Bound /\ req.kind = "dynamic" /\ nadv' = nadv + 1) =>
          LET s == Run_inc(AsStatic(run), image)
          IN  /\ run' = AsDynamic(s.run)
              /\ run'.ok => image' = s.image]_vars

C14_Witness ==
  /\ pc = "body"
  /\ req.kind = "dynamic"
  /\ Len(req.axes) = 3
  /\ Len(run.vox) = 2
  /\ \A n \in 0 .. 2 : A.size[n] = 2
  /\ nadv = 4
  /\ A.index[req.axes[3]] = 1
  /\ A.index[req.axes[2]] = 0
  /\ A.index[req.axes[1]] = 0

(***************************************************************************)
(* C15.  When an advance has exhausted the cursor, every selected axis,    *)
(* the outermost included, is at position 0 on every image of the tuple,   *)
(* for every request form.                                                 *)
(***************************************************************************)
C15_ExhaustedAllZero ==
  (pc = "done" /\ nadv > 0) =>
     LET ord == AxisOrder
     IN  \A j \in DOMAIN ord : \A v \in DOMAIN run.vox :
           image[run.vox[v]].index[ord[j]] = 0

(***************************************************************************)
(* A caller whose body records where the first image stands on the axes    *)
(* of the list, as the body of                                             *)
(*   for (auto l = Loop (axes) (images...); l; ++l) ... nodes.value() ...  *)
(* reads the element there.                                                *)
(***************************************************************************)
\* the set of axes the request selects
Selected == { AxisOrder[j] : j \in DOMAIN AxisOrder }

\* the first image's position on the selected axes
Position == [n \in Selected |-> A.index[n]]

\* the for statement's condition and the body's reading of the position
Visit ==
  /\ pc = "check"
  /\ LET t == Run_test(run, image)
     IN  /\ run' = t.run
         /\ image' = t.image
         /\ IF t.value
              THEN /\ pc' = "body"
                   /\ nbody' = nbody + 1
                   /\ seen' = seen \cup {Position}
              ELSE /\ pc' = "done"
                   /\ UNCHANGED <<nbody, seen>>
  /\ UNCHANGED <<req, origin, nadv, nextra, other, again>>

NextLists ==
  \/ Loop_static
  \/ Loop_dynamic
  \/ Apply
  \/ Visit
  \/ Advance

SpecLists == Init /\ [][NextLists]_vars

(***************************************************************************)
(* C16.  For a list of axes whose extents are all >= 1 the body stands on  *)
(* each tuple of the Cartesian product of [0, extent) over the listed axes *)
(* exactly once before the cursor is exhausted: every entry into the body  *)
(* finds a tuple of the product not seen before, and at the end all have   *)
(* been seen.  The product depends on the set of axes and not on their     *)
(* order, so every permutation of the list visits the same set.            *)
(***************************************************************************)
C16_PermutationsVisitProduct ==
  (Bound /\ AllPositive) =>
     LET sel == Selected
         product == { p \in [sel -> 0 .. (MaxExtent - 1)] : \A n \in sel : p[n] < A.size[n] }
     IN  /\ Cardinality(seen) = nbody
         /\ seen \subseteq product
         /\ pc = "done" => seen = product

C16_Witness ==
  /\ pc = "done"
  /\ req.axes = <<2, 0, 1>>
  /\ Len(run.vox) = 2
  /\ \A n \in 0 .. 2 : A.size[n] = 2
  /\ Cardinality(seen) = 8
  /\ nbody = 8

(***************************************************************************)
(* A caller that goes on calling ++l after the condition was false.        *)
(***************************************************************************)
\* the largest number of ++l made on an exhausted cursor
MaxExtra == 4

\* ++l on a cursor whose operator bool has returned false
Advance_exhausted ==
  /\ pc = "done"
  /\ nextra < MaxExtra
  /\ LET c == Run_inc(run, image)
     IN  /\ run' = c.run
         /\ image' = c.image
  /\ nextra' = nextra + 1
  /\ UNCHANGED <<req, origin, pc, nbody, nadv, seen, other, again>>

NextExtra ==
  \/ Loop_axes
  \/ Loop_axis
  \/ Loop_range
  \/ Loop_static
  \/ Loop_dynamic
  \/ Apply
  \/ Check
  \/ Advance
  \/ Advance_exhausted

SpecExtra == Init /\ [][NextExtra]_vars

(***************************************************************************)
(* C17.  Exhausted is terminal: once operator bool of a cursor is false,   *)
(* it is false after every further step, whatever number of advance calls  *)
(* is made on the cursor, for the flag-based and the position-based forms. *)
(***************************************************************************)
C17_ExhaustedIsTerminal ==
  [][(Bound /\ ~Run_bool(run, image)) => ~Run_bool(run', image')]_vars

C17_Witness ==
  /\ pc = "done"
  /\ req.kind = "range"
  /\ nadv = 2
  /\ nextra = 3
  /\ A.index[run.from] = 1
  /\ ~Run_bool(run, image)

(***************************************************************************)
(* C18.  Whenever operator bool of the cursor is true, the first image     *)
(* stands within [0, extent) on every selected axis, for every selection,  *)
(* one with an axis of extent 0 included: a body that reads an element     *)
(* whenever the cursor is live never reads outside the image.              *)
(***************************************************************************)
C18_LivePositionsInBounds ==
  (Bound /\ Run_bool(run, image)) =>
     LET ord == AxisOrder
     IN  \A j \in DOMAIN ord :
           /\ 0 <= A.index[ord[j]]
           /\ A.index[ord[j]] < A.size[ord[j]]

(***************************************************************************)
(* C20.  A cursor over one axis a of extent n is a bounded counter in      *)
(* every form that selects one axis (single axis, range [a, a+1), list of  *)
(* one element, static or dynamic), for every n >= 0: the body is entered  *)
(* at positions 0, 1, ..., n-1 in that order, and the cursor is exhausted  *)
(* after exactly n advances.                                               *)
(***************************************************************************)
C20_OneAxisBoundedCounter ==
  (Bound /\ Len(AxisOrder) = 1) =>
     LET a == AxisOrder[1]
         n == A.size[a]
     IN  /\ pc = "body" => (nbody <= n /\ A.index[a] = nbody - 1)
         /\ pc = "done" => (nbody = n /\ nadv = n)

(***************************************************************************)
(* A caller whose body moves the last image of the tuple along its last    *)
(* axis when the loop does not select it, as the body of                   *)
(*   for (auto l = Loop (..., nodes) (nodes, out); l; ++l)                 *)
(* sets out.index (3) = 0, 1, 2 in turn and leaves it at the last.         *)
(***************************************************************************)
Body_write ==
  /\ pc = "body"
  /\ LET out == run.vox[Len(run.vox)]
         n == NDim - 1
     IN  /\ n \notin Selected
         /\ size(image[out], n) >= 1
         /\ image' = [image EXCEPT ![out].index[n] = size(image[out], n) - 1]
  /\ UNCHANGED <<req, origin, run, pc, nbody, nadv, nextra, seen, other, again>>

NextBody ==
  \/ Loop_axis
  \/ Loop_range
  \/ Loop_static
  \/ Loop_dynamic
  \/ Apply
  \/ Check
  \/ Body_write
  \/ Advance

SpecBody == Init /\ [][NextBody]_vars

(***************************************************************************)
(* C19.  Construction and every advance leave the position of every axis   *)
(* the request does not select as it was, on every image (and leave an     *)
(* image outside the tuple alone); so what the body writes there stays,    *)
(* and with such writes the selected axes are still visited in nested-loop *)
(* order on every image of the tuple, as many times as without them.       *)
(***************************************************************************)
C19_NonSelectedUntouched ==
  /\ [][(pc \in {"request", "body"} /\ pc' = "check") =>
          LET sel == Selected
              tuple == { run'.vox[v] : v \in DOMAIN run'.vox }
          IN  \A i \in ImageIds : \A n \in Axes :
                (n \notin sel \/ i \notin tuple) =>
                   image'[i].index[n] = image[i].index[n]]_vars
  /\ []((Bound /\ AllPositive) =>
          LET ord == AxisOrder
              sz == A.size
          IN  /\ pc = "body" =>
                   \A j \in DOMAIN ord : \A v \in DOMAIN run.vox :
                     image[run.vox[v]].index[ord[j]] = Digit(sz, ord, nbody - 1, j)
              /\ pc = "done" => nbody = ProductUpTo(sz, ord, Len(ord)))

C19_Witness ==
  /\ pc = "body"
  /\ req.kind = "range"
  /\ req.from = 0
  /\ req.to = 2
  /\ run.vox = <<1, 2>>
  /\ nadv = 3
  /\ image[2].index[2] = image[2].size[2] - 1
  /\ image[1].index[2] = StartIndex(1)[2]

(***************************************************************************)
(* Two nested loops over one image, as in the documentation:               *)
(*   LoopInOrder inner (vox, 0, 3);                                        *)
(*   for (auto i = Loop(3).run (vox); i; ++i)                              *)
(*     for (auto j = inner.run (vox); j; ++j) body                         *)
(* The outer cursor, over the last axis, is other.run; the inner cursor,   *)
(* over the axes before it, is run, built anew at each outer step, either  *)
(* by Loop (0, last) or in the stride order of the image.  origin.source   *)
(* is the image, and seen the positions at which the body has stood.       *)
(***************************************************************************)
LastAxis == NDim - 1

\* the image both loops run over
V == image[origin.source]

Nested_request ==
  /\ pc = "idle"
  /\ \E v \in ImageIds :
       /\ origin' = [source |-> v, from |-> 0, to |-> LastAxis]
       /\ \/ req' = [NoReq EXCEPT !.kind = "range", !.from = 0, !.to = LastAxis]
          \/ req' = [NoReq EXCEPT !.kind = "dynamic",
                                  !.axes = Stride_order(image[v], 0, LastAxis)]
  /\ other' = [req |-> [NoReq EXCEPT !.kind = "single", !.axis = LastAxis],
               run |-> NoRun, pc |-> "request", nbody |-> 0, nadv |-> 0]
  /\ pc' = "outer_request"
  /\ UNCHANGED <<image, run, nbody, nadv, nextra, seen, again>>

\* auto i = Loop(3).run (vox)
Outer_apply ==
  /\ pc = "outer_request"
  /\ LET c == Loop_call(other.req, <<origin.source>>, image)
     IN  /\ other' = [other EXCEPT !.run = c.run]
         /\ image' = c.image
  /\ pc' = "outer_check"
  /\ UNCHANGED <<req, origin, run, nbody, nadv, nextra, seen, again>>

\* the outer for statement's condition
Outer_check ==
  /\ pc = "outer_check"
  /\ LET t == Run_test(other.run, image)
     IN  /\ other' = [other EXCEPT !.run = t.run]
         /\ image' = t.image
         /\ pc' = IF t.value THEN "request" ELSE "finished"
  /\ UNCHANGED <<req, origin, run, nbody, nadv, nextra, seen, again>>

\* auto j = inner.run (vox): the request applied to the one image
Apply_vox ==
  /\ pc = "request"
  /\ LET c == Loop_call(req, <<origin.source>>, image)
     IN  /\ run' = c.run
         /\ image' = c.image
  /\ pc' = "check"
  /\ UNCHANGED <<req, origin, nbody, nadv, nextra, seen, other, again>>

\* the inner for statement's condition, and the body at the image's position
Inner_visit ==
  /\ pc = "check"
  /\ LET t == Run_test(run, image)
     IN  /\ run' = t.run
         /\ image' = t.image
         /\ IF t.value
              THEN /\ pc' = "body"
                   /\ nbody' = nbody + 1
                   /\ seen' = seen \cup {V.index}
              ELSE /\ pc' = "done"
                   /\ UNCHANGED <<nbody, seen>>
  /\ UNCHANGED <<req, origin, nadv, nextra, other, again>>

\* the outer for statement's ++i, after the inner loop has ended
Outer_advance ==
  /\ pc = "done"
  /\ LET c == Run_inc(other.run, image)
     IN  /\ other' = [other EXCEPT !.run = c.run, !.nadv = @ + 1]
         /\ image' = c.image
  /\ pc' = "outer_check"
  /\ UNCHANGED <<req, origin, run, nbody, nadv, nextra, seen, again>>

NextNested ==
  \/ Nested_request
  \/ Outer_apply
  \/ Outer_check
  \/ Apply_vox
  \/ Inner_visit
  \/ Advance
  \/ Outer_advance

SpecNested == InitStride /\ [][NextNested]_vars

\* the outer cursor of the nested loops has been built
Nested == other.pc # "idle" /\ other.run.kind = "single"

\* the number of positions of one inner pass, and of the whole image
InnerTotal == ProductUpTo(V.size, [j \in 1..LastAxis |-> j - 1], LastAxis)
WholeTotal == InnerTotal * V.size[LastAxis]

\* the positions of the image
Positions == { p \in [Axes -> 0..MaxExtent] : \A n \in Axes : p[n] < V.size[n] }

\* C21: an outer cursor on the last axis and a fresh inner cursor on the axes
\* before it, built at each outer step over the same image, can be nested:
\* building and advancing the inner cursor changes neither the outer cursor
\* nor its liveness nor the position on the outer axis; the body never stands
\* twice at one position and at the end it has stood at every position of the
\* image; when no extent is 0 it stands at positions of the image only, and
\* each inner pass visits as many as the product of the inner extents.
C21_NestedCursors ==
  /\ [][(Nested /\ pc \in {"request", "check", "body"}) =>
          /\ other' = other
          /\ Run_bool(other.run, image') = Run_bool(other.run, image)
          /\ Run_bool(other.run, image')
          /\ image'[origin.source].index[LastAxis] = V.index[LastAxis]]_vars
  /\ [](Nested =>
          /\ Cardinality(seen) = nbody
          /\ pc = "body" => V.index \in seen
          /\ pc = "finished" => Positions \subseteq seen
          /\ (\A n \in Axes : V.size[n] >= 1) =>
               /\ seen \subseteq Positions
               /\ pc = "done" => nbody = (V.index[LastAxis] + 1) * InnerTotal
               /\ pc = "finished" => nbody = WholeTotal)

C21_Witness ==
  /\ Nested /\ pc = "finished"
  /\ \A n \in Axes : V.size[n] = 2
  /\ req.kind = "dynamic" /\ req.axes[1] = 1
  /\ nbody = 2 * InnerTotal /\ Cardinality(seen) = WholeTotal

(***************************************************************************)
(* Two cursors over one image, each driven by its own for statement, their *)
(* checks and advances in any interleaving:                                *)
(*   auto j = Loop (axis) (vox);    other.run, other.pc                    *)
(*   auto i = Loop (from, to) (vox);    run, pc                            *)
(* Both are built before either is checked or advanced.                    *)
(***************************************************************************)
\* the most axes of a range or list a caller of the smaller specifications
\* selects
MaxSpan == 2

Two_request ==
  /\ pc = "idle"
  /\ \E from \in Axes, to \in 1..NDim, axis \in Axes :
       /\ from < to /\ to - from <= MaxSpan
       /\ origin' = [source |-> 1, from |-> from, to |-> to]
       /\ req' = [NoReq EXCEPT !.kind = "range", !.from = from, !.to = to]
       /\ other' = [req |-> [NoReq EXCEPT !.kind = "single", !.axis = axis],
                    run |-> NoRun, pc |-> "request", nbody |-> 0, nadv |-> 0]
  /\ pc' = "other_request"
  /\ UNCHANGED <<image, run, nbody, nadv, nextra, seen, again>>

\* auto j = Loop (axis) (vox)
Other_apply ==
  /\ pc = "other_request"
  /\ LET c == Loop_call(other.req, <<origin.source>>, image)
     IN  /\ other' = [other EXCEPT !.run = c.run, !.pc = "check"]
         /\ image' = c.image
  /\ pc' = "request"
  /\ UNCHANGED <<req, origin, run, nbody, nadv, nextra, seen, again>>

\* the condition of the for statement over j
Other_check ==
  /\ pc \in {"check", "body", "done"}
  /\ other.pc = "check"
  /\ LET t == Run_test(other.run, image)
     IN  /\ other' = [other EXCEPT !.run = t.run,
                                   !.pc = IF t.value THEN "body" ELSE "done",
                                   !.nbody = IF t.value THEN @ + 1 ELSE @]
         /\ image' = t.image
  /\ UNCHANGED <<req, origin, run, pc, nbody, nadv, nextra, seen, again>>

\* ++j
Other_advance ==
  /\ pc \in {"check", "body", "done"}
  /\ other.pc = "body"
  /\ LET c == Run_inc(other.run, image)
     IN  /\ other' = [other EXCEPT !.run = c.run, !.pc = "check", !.nadv = @ + 1]
         /\ image' = c.image
  /\ UNCHANGED <<req, origin, run, pc, nbody, nadv, nextra, seen, again>>

NextTwo ==
  \/ Two_request
  \/ Other_apply
  \/ Apply_vox
  \/ Check
  \/ Advance
  \/ Other_check
  \/ Other_advance

SpecTwo == Init /\ [][NextTwo]_vars

\* both cursors are built
Two == other.pc # "idle" /\ Bound

\* the two cursors select a common axis
Shared == other.req.axis >= req.from /\ other.req.axis < req.to

\* no selected axis of either cursor has extent 0
TwoPositive == AllPositive /\ V.size[other.req.axis] >= 1

\* the image is within the extents on the axes the first cursor selects
InRange == \A n \in req.from .. (req.to - 1) : V.index[n] >= 0 /\ V.index[n] < V.size[n]

\* the image is within the extent on the axis the second cursor selects
OtherInRange == V.index[other.req.axis] >= 0 /\ V.index[other.req.axis] < V.size[other.req.axis]

\* C22: two independent cursors over one image are unsafe when they share a
\* selected axis: whenever a cursor ends after a number of visits other than
\* the product of its extents, or finds itself live at a position outside
\* [0, extent) on a selected axis, the two cursors share a selected axis (no
\* extent being 0); the witness is an interleaving in which this happens.
C22_UnsafeOnlyWhenShared ==
  /\ []((Two /\ TwoPositive /\ ~Shared) =>
          /\ pc = "done" => nbody = Total
          /\ other.pc = "done" => other.nbody = V.size[other.req.axis])
  /\ [][(Two /\ TwoPositive /\ ~Shared) =>
          /\ (pc = "check" /\ pc' = "body") => InRange
          /\ (other.pc = "check" /\ other'.pc = "body") => OtherInRange]_vars

\* sharing an axis, the second cursor has ended after a number of visits other
\* than its extent and the first is in its body, live, beyond an extent
C22_Witness ==
  /\ Two /\ TwoPositive /\ Shared
  /\ other.pc = "done" /\ other.nbody # V.size[other.req.axis]
  /\ pc = "body" /\ run.ok /\ ~InRange

(***************************************************************************)
(* The for statement runs to its end: the caller's thread goes on from the *)
(* initialiser to the condition, from a true condition through the body to *)
(* ++l and back to the condition, so each of these steps is taken when it  *)
(* is the next one.                                                        *)
(***************************************************************************)
\* auto loop = Loop (...), any of the forms without progress display (lists
\* of at most MaxSpan axes), for the first image
Loop_plain ==
  /\ pc = "idle"
  /\ \E rq \in { [NoReq EXCEPT !.kind = "axes"] }
         \cup { [NoReq EXCEPT !.kind = "single", !.axis = axis] : axis \in Axes }
         \cup { [NoReq EXCEPT !.kind = "range", !.from = axis_from, !.to = axis_to] :
                  axis_from \in Axes, axis_to \in 0 .. NDim }
         \cup { [NoReq EXCEPT !.kind = k, !.axes = axes] :
                  k \in {"static", "dynamic"},
                  axes \in { l \in AxisLists : Len(l) <= MaxSpan } } :
       /\ rq.kind = "range" => (rq.to = 0 \/ rq.from < rq.to)
       /\ Requested(rq, [source |-> 1, from |-> 0, to |-> 0])

NextFair ==
  \/ Loop_plain
  \/ Apply_vox
  \/ Check
  \/ Advance

SpecFair ==
  /\ Init /\ [][NextFair]_vars
  /\ WF_vars(Apply_vox) /\ WF_vars(Check) /\ WF_vars(Advance)

\* the product over the selected axes of the extents, an extent of 0 counted as 1
RECURSIVE MostAdvances(_)
MostAdvances(j) ==
  IF j = 0 THEN 1
  ELSE (IF A.size[AxisOrder[j]] = 0 THEN 1 ELSE A.size[AxisOrder[j]]) * MostAdvances(j - 1)

\* C23: every iteration terminates: for every request form and all extents,
\* 0 included, a caller that checks and advances in turn from construction on
\* makes no more advances than the product of the extents (an extent of 0
\* counted as 1) and reaches the state in which the check fails; from no
\* state does the cursor stay live forever.
C23_IterationTerminates ==
  /\ [](Bound => nadv <= MostAdvances(Len(AxisOrder)))
  /\ (pc \in {"check", "body"}) ~> (pc = "done")

\* a dynamic-list cursor over several axes, one of extent 0, has ended after
\* as many advances as the other extent
C23_Witness ==
  /\ pc = "done" /\ ~Run_bool(run, image)
  /\ req.kind = "dynamic" /\ Len(req.axes) = MaxSpan
  /\ SomeZero /\ nadv = MaxExtent

(***************************************************************************)
(* A caller that applies its request a second time to the same images,     *)
(* after its first loop has ended or from the body of the first loop,      *)
(* which it leaves by break:                                               *)
(*   for (auto l = loop (images...); l; ++l) { ... break; ... }            *)
(*   for (auto l = loop (images...); l; ++l) body                          *)
(***************************************************************************)
\* loop (nodes, out): the request applied to both images
Apply_both ==
  /\ pc = "request"
  /\ LET c == Loop_call(req, <<1, 2>>, image)
     IN  /\ run' = c.run
         /\ image' = c.image
  /\ pc' = "check"
  /\ UNCHANGED <<req, origin, nbody, nadv, nextra, seen, other, again>>

\* the request applied a second time to the images of the first
Apply_again ==
  /\ pc \in {"body", "done"}
  /\ again = "no"
  /\ LET c == Loop_call(req, run.vox, image)
     IN  /\ run' = c.run
         /\ image' = c.image
  /\ again' = pc
  /\ nbody' = 0
  /\ nadv' = 0
  /\ pc' = "check"
  /\ UNCHANGED <<req, origin, nextra, seen, other>>

NextAgain ==
  \/ Loop_plain
  \/ Apply_both
  \/ Check
  \/ Advance
  \/ Apply_again

SpecAgain == Init /\ [][NextAgain]_vars

\* C24: construction sets every selected axis to 0 on every image of the
\* tuple whatever the positions were, so a request applied again to the same
\* images, after the first loop ended or was left from its body, starts from
\* the very state the first application started from, and (no extent being
\* 0) both loops enter the body at the same positions, those of the nested
\* loops in order, the same number of times.
C24_ReapplicationRepeats ==
  /\ [][(again = "no" /\ again' # "no") =>
          /\ \A v \in DOMAIN run.vox : \A j \in DOMAIN AxisOrder :
               image'[run.vox[v]].index[AxisOrder[j]] = 0
          /\ [run |-> run', image |-> image'] = Loop_call(req, run.vox, Image0)]_vars
  /\ []((Bound /\ AllPositive) =>
          LET ord == AxisOrder
              sz == A.size
          IN  /\ pc = "body" =>
                   /\ nbody <= ProductUpTo(sz, ord, Len(ord))
                   /\ \A j \in DOMAIN ord : \A v \in DOMAIN run.vox :
                        image[run.vox[v]].index[ord[j]] = Digit(sz, ord, nbody - 1, j)
              /\ pc = "done" => nbody = ProductUpTo(sz, ord, Len(ord)))

\* a dynamic-list request applied again to two images after its first loop was
\* left from the body, the second loop at its last position
C24_Witness ==
  /\ again = "body" /\ pc = "body"
  /\ req.kind = "dynamic" /\ req.axes = <<1, 0>>
  /\ Len(run.vox) = 2
  /\ A.size[0] = MaxExtent /\ A.size[1] = MaxExtent
  /\ nbody = MaxExtent * MaxExtent
  /\ image[2].index[0] = MaxExtent - 1 /\ image[2].index[1] = MaxExtent - 1

====
